---- MODULE Spec2Model ----
(***************************************************************************)
(* Model of the auction engine and token/reputation ledger of package      *)
(* tokens (internal/tokens): the Manager's operations InitializeTokens,    *)
(* RefillTokens, SpendTokens, RecordBid, GetTokenBalance and RunAuction    *)
(* over the two DynamoDB tables "tokens" and "bids".                       *)
(*                                                                         *)
(* Every DynamoDB request (GetItem, PutItem, UpdateItem) is one atomic     *)
(* step; a call of a Manager method is a sequence of such steps, and the   *)
(* steps of concurrent calls interleave freely.                            *)
(***************************************************************************)
EXTENDS Integers, Sequences, FiniteSets, TLC

(***************************************************************************)
(* Bounds of the model.                                                    *)
(***************************************************************************)
\* longest batch of bids handed to a RunAuction call that runs alone
MaxBids == 3
\* longest batch of bids handed to a RunAuction call that runs beside others
MaxConcurrentBids == 1
\* longest team list handed to InitializeTokens / RefillTokens
MaxTeams == 1
\* calls of InitializeTokens / RefillTokens in one behaviour
MaxAdminCalls == 1
\* DynamoDB requests that the store rejects (store unavailable) in one behaviour
MaxFaults == 1
\* longest batch of bids handed to a RunAuction call that races a direct debit
MaxRaceBids == 2
\* longest team list handed to InitializeTokens / RefillTokens by a client
\* that makes its calls one after another
MaxLedgerTeams == 2
\* calls from which that client returns to make another
MaxReturns == 6
\* how far below the initial reputation the reputations priced and scored go
MaxReputationDrop == 300

\* the concurrent callers of RunAuction / SpendTokens
Procs == {"c1", "c2"}

\* team identifiers that bids and InitializeTokens use
TeamIDs == {"A", "B"}
\* team identifiers handed to RefillTokens: the teams, and an identifier
\* that itself starts with the key prefix
RefillIDs == TeamIDs \cup {"team#A"}
\* the recipient of the round
UserIDs == {"123"}
\* priorities that bids declare: the lowest, the highest, and one above the
\* range 1..10 (RunAuction and SpendTokens take any int64)
BidPriorities == {1, 10, 11}

(***************************************************************************)
(* Program constants.                                                      *)
(***************************************************************************)
InitialTokenCount == 1000
InitialReputationScore == 100
\* priorityUsage[10] > 5 triggers the penalty
AbuseThreshold == 5
\* ":decrease" of the reputation update
ReputationPenalty == 10
\* the priority whose usage is checked after a debit
AbusePriority == 10

Priorities == 1 .. 10

costMap(priority) ==
    CASE priority \in 1 .. 3 -> 1
      [] priority \in 4 .. 6 -> 5
      [] priority \in 7 .. 9 -> 7
      [] priority = 10 -> 10
      [] OTHER -> 0

\* the keys of priority_usage that the model keeps.  The map of a new item
\* has the keys 1..10; a debit at any other priority adds its key.  A key that
\* the map lacks reads as 0 wherever it is read (if_not_exists(..., :start)
\* in the debit, the zero value of a Go map), so the model keeps it as 0.
UsageKeys == Priorities \cup BidPriorities

InitialPriorityUsage == [p \in UsageKeys |-> 0]

GetTokenPK(teamID) == "team#" \o teamID

GetBidPK(teamID) == "bid#" \o teamID

\* keys of the tokens table that the model's requests can address
TokenKeys == {GetTokenPK(t) : t \in TeamIDs} \cup RefillIDs

(***************************************************************************)
(* Pricing.  The code computes, in float64,                                *)
(*   priceMultiplier = 1.0 + (2.5 - 1.0) * (1 - float64(reputation)/100)   *)
(*   cost = int64(float64(costMap[priority]) * priceMultiplier)            *)
(* The exact value of the product is base * (500 - 3*reputation) / 200.    *)
(* int64() truncates toward zero.  In binary64 the subtraction             *)
(* 1 - reputation/100 is inexact, and for a few (base, reputation) pairs   *)
(* whose exact product is an integer the computed product falls just below *)
(* it, so that the truncation yields one less.  Float64Undershoot lists    *)
(* those pairs for reputations in -400 .. 100 (the same pairs with and     *)
(* without fused multiply-add).                                            *)
(***************************************************************************)
TruncDiv(n, d) == IF n >= 0 THEN n \div d ELSE -((-n) \div d)

Float64Undershoot(base, reputation) ==
    IF \/ (base = 10 /\ reputation \in {80, -40, -180})
       \/ (base = 5 /\ reputation = -180)
    THEN 1 ELSE 0

computeBidcost(priority, reputation) ==
    TruncDiv(costMap(priority) * (500 - 3 * reputation), 200)
        - Float64Undershoot(costMap(priority), reputation)

(***************************************************************************)
(* Scoring.  The code computes, in float64,                                *)
(*   0.7 * (float64(priority-1)/9.0*100.0) + 0.3 * (reputation/100*100)    *)
(* The model keeps the exact value multiplied by 90, an integer:           *)
(*   90 * score = 700 * (priority - 1) + 27 * reputation.                 *)
(* Two distinct exact scores differ by at least 1/90, far more than the    *)
(* rounding error of the float64 evaluation, and equal inputs give equal   *)
(* floats, so the order and the ties of the scaled integers are those of   *)
(* the floats.  The zero value of maxScore is 0 in both.                   *)
(***************************************************************************)
\* the reputation term subtracted
calculateScoreInverted(priority, reputation) ==
    700 * (priority - 1) - 27 * reputation

calculateScore(priority, reputation) ==
    700 * (priority - 1) + 27 * reputation

(***************************************************************************)
(* State.                                                                  *)
(***************************************************************************)
VARIABLES
    \* the "tokens" table: key -> item (TokenDBRow), NoItem where there is none
    tokens,
    \* the "bids" table: the set of BidRows put
    bidsTable,
    \* whether the Go toolchain gives each iteration of a for-range loop its own
    \* variable (language version >= 1.22) or all iterations share one
    loopVarPerIteration,
    \* per caller: the position in, and the locals of, its RunAuction or
    \* SpendTokens call
    calls,
    \* the caller of InitializeTokens / RefillTokens: its position and locals
    admin,
    \* history of each caller's requests (what it wrote, what the store saw)
    hist,
    \* the tokens table of the initial state
    start,
    \* number of InitializeTokens / RefillTokens calls started
    adminCalls,
    \* number of requests the store has rejected
    faults

vars == <<tokens, bidsTable, loopVarPerIteration, calls, admin, hist, start,
          adminCalls, faults>>

(***************************************************************************)
(* Items of the tokens table.  Timestamps are written and never read by    *)
(* the operations modelled, and are left out.  has_usage says whether the  *)
(* item carries a priority_usage attribute.                                *)
(***************************************************************************)
NoItem ==
    [exists |-> FALSE, token_balance |-> 0, reputation_score |-> 0,
     has_usage |-> FALSE, priority_usage |-> InitialPriorityUsage]

TokenDBRow(balance, reputation, usage) ==
    [exists |-> TRUE, token_balance |-> balance, reputation_score |-> reputation,
     has_usage |-> TRUE, priority_usage |-> usage]

\* the item InitializeTokens puts
NewTokenDBRow ==
    TokenDBRow(InitialTokenCount, InitialReputationScore, InitialPriorityUsage)

Bid(teamID, userID, priority) ==
    [TeamID |-> teamID, UserID |-> userID, Priority |-> priority]

Bids == {Bid(t, u, pr) : t \in TeamIDs, u \in UserIDs, pr \in BidPriorities}

NoBid == Bid("", "", 0)

RECURSIVE SeqsUpTo(_, _)
SeqsUpTo(S, n) ==
    IF n = 0 THEN {<<>>}
    ELSE LET shorter == SeqsUpTo(S, n - 1)
         IN  shorter \cup {Append(s, x) : s \in {t \in shorter : Len(t) = n - 1}, x \in S}

(***************************************************************************)
(* The accounts a behaviour starts from: states that sequences of          *)
(* successful SpendTokens calls on a newly initialized account lead to.    *)
(*   - the account as InitializeTokens creates it;                         *)
(*   - after 5 debits at priority 10 (10 tokens each at reputation 100)    *)
(*     and 938 debits at priority 1 (1 token each): balance 12;            *)
(*   - after 766 debits at priority 1 at reputation 100 and then 15 debits *)
(*     at priority 10, the 6th to the 15th of which each cost a penalty of *)
(*     10 (costs 6*10, 11, 12, 14, 16, 17, 19, 20, 22, 23 = 214):          *)
(*     balance 20, reputation 0.                                           *)
(***************************************************************************)
LowAccount ==
    TokenDBRow(12, 100, [InitialPriorityUsage EXCEPT ![10] = 5, ![1] = 938])

AbuserAccount ==
    TokenDBRow(20, 0, [InitialPriorityUsage EXCEPT ![10] = 15, ![1] = 766])

\*   - after 486 debits at priority 1 at reputation 100 and then the same 15
\*     debits at priority 10: balance 300, reputation 0.
DebtorAccount ==
    TokenDBRow(300, 0, [InitialPriorityUsage EXCEPT ![10] = 15, ![1] = 486])

StartAccountsA == {NewTokenDBRow, LowAccount, AbuserAccount}

StartAccountsB == {NoItem, LowAccount, AbuserAccount}

(***************************************************************************)
(* Locals of a call.  winningBid is a pointer: Nil, or the address of a    *)
(* loop variable.  slot 0 is the one variable all iterations share, slot k *)
(* (k >= 1) the variable of iteration k.  When a call returns, its locals  *)
(* are gone: only the batch it was given and what it returned are kept.    *)
(***************************************************************************)
Nil == [slot |-> -1]

IdleCall ==
    [pc |-> "idle", op |-> "", bids |-> <<>>, idx |-> 0, bid |-> NoBid,
     winningBid |-> Nil, winningBidCost |-> 0, maxScore |-> 0,
     balance |-> 0, reputation |-> 0, bidScore |-> 0, bidCost |-> 0,
     spBid |-> NoBid, spBalance |-> 0, spCost |-> 0,
     team |-> "", err |-> ""]

NoHist ==
    [touched |-> {}, debits |-> 0, puts |-> 0, debited |-> NoBid,
     wrote |-> FALSE, writeOk |-> FALSE, cost |-> 0, balRead |-> 0,
     balAtWrite |-> 0, balAfterWrite |-> 0, returns |-> 0]

\* refilled is history: for each team, the priority-10 usage count of its
\* account when RefillTokens last made its request for the team, NotRefilled
\* before
NotRefilled == -1

IdleAdmin ==
    [pc |-> "idle", op |-> "", teams |-> <<>>, i |-> 0,
     refilled |-> [t \in TeamIDs |-> NotRefilled]]

Init ==
    /\ \E a \in StartAccountsA, b \in StartAccountsB :
         tokens = [k \in TokenKeys |->
                     IF k = GetTokenPK("A") THEN a
                     ELSE IF k = GetTokenPK("B") THEN b
                     ELSE NoItem]
    /\ start = tokens
    /\ bidsTable = {}
    /\ loopVarPerIteration \in BOOLEAN
    /\ calls = [p \in Procs |-> IdleCall]
    /\ admin = IdleAdmin
    /\ hist = [p \in Procs |-> NoHist]
    /\ adminCalls = 0
    /\ faults = 0

\* the initial states of the client that makes its calls one after another
InitLedger ==
    /\ \E a \in {NewTokenDBRow, LowAccount, DebtorAccount}, b \in {NoItem, LowAccount} :
         tokens = [k \in TokenKeys |->
                     IF k = GetTokenPK("A") THEN a
                     ELSE IF k = GetTokenPK("B") THEN b
                     ELSE NoItem]
    /\ start = tokens
    /\ bidsTable = {}
    /\ loopVarPerIteration \in BOOLEAN
    /\ calls = [p \in Procs |-> IdleCall]
    /\ admin = IdleAdmin
    /\ hist = [p \in Procs |-> NoHist]
    /\ adminCalls = 0
    /\ faults = 0

(***************************************************************************)
(* Manager.  NewManager returns &Manager{dynamoClient: client}: the logger *)
(* field is left nil, and there is no other constructor or setter.         *)
(***************************************************************************)
ManagerLogger == "nil"

(***************************************************************************)
(* GetTokenBalance: one GetItem on the key GetTokenPK(teamID).             *)
(***************************************************************************)
GetTokenBalance(teamID) ==
    LET item == tokens[GetTokenPK(teamID)]
    IN  IF ~item.exists
        THEN [err |-> "AccountNotFound", balance |-> 0, reputation |-> 0]
        ELSE [err |-> "", balance |-> item.token_balance,
              reputation |-> item.reputation_score]

(***************************************************************************)
(* RecordBid: builds the BidRow and puts it.  The row's sort key holds a   *)
(* fresh ksuid, modelled as the pair of the caller and the ordinal of the  *)
(* put among the caller's puts: no two puts share one.                     *)
(***************************************************************************)
\* the row keyed by the team alone, with no bid identifier in the sort key
BidRowWithoutID(bid, cost, score, bidID) ==
    [Pk |-> GetBidPK(bid.TeamID), Sk |-> <<bid.TeamID, <<"", 0>>>>,
     Target |-> bid.UserID, Priority |-> bid.Priority,
     Cost |-> cost, Score |-> score]

BidRow(bid, cost, score, bidID) ==
    [Pk |-> GetBidPK(bid.TeamID), Sk |-> <<bid.TeamID, bidID>>,
     Target |-> bid.UserID, Priority |-> bid.Priority,
     Cost |-> cost, Score |-> score]

\* PutItem with no condition: the row replaces the row of the same key
\* (pk, sk), if the table holds one
PutItem(table, row) ==
    {r \in table : ~(r.Pk = row.Pk /\ r.Sk = row.Sk)} \cup {row}

\* the value RecordBid returns: the error of PutItem is assigned and dropped
RecordBidResult(putAccepted) == ""

\* the variable that &bid addresses in iteration k of the loop
AddressOfBid(k) == IF loopVarPerIteration THEN [slot |-> k] ELSE [slot |-> 0]

\* the Bid a pointer refers to in the state of call c
Deref(c, ptr) == IF ptr.slot = 0 THEN c.bid ELSE c.bids[ptr.slot]

Finish(c, team, err) ==
    [IdleCall EXCEPT !.pc = "done", !.op = c.op, !.bids = c.bids,
                     !.team = team, !.err = err]

(***************************************************************************)
(* RunAuction.                                                             *)
(***************************************************************************)
\* the call is made with a batch of at most maxLen bids
StartAuction(p, maxLen) ==
    /\ calls[p].pc = "idle"
    /\ \E bids \in SeqsUpTo(Bids, maxLen) :
         calls' = [calls EXCEPT ![p] =
                     [IdleCall EXCEPT !.pc = "loop", !.op = "RunAuction",
                                      !.bids = bids]]
    /\ UNCHANGED <<tokens, bidsTable, loopVarPerIteration, admin, hist, start,
                   adminCalls, faults>>

\* the next iteration, up to and including GetTokenBalance and the ranking
\* and pricing of the bid
AuctionGet(p) ==
    LET c == calls[p]
        k == c.idx + 1
    IN  /\ c.pc = "loop"
        /\ c.idx < Len(c.bids)
        /\ LET bid == c.bids[k]
               got == GetTokenBalance(bid.TeamID)
               c1 == [c EXCEPT !.idx = k, !.bid = bid]
           IN  calls' = [calls EXCEPT ![p] =
                   IF got.err # ""
                   THEN Finish(c1, "", got.err)
                   ELSE [c1 EXCEPT !.pc = "record",
                                   !.balance = got.balance,
                                   !.reputation = got.reputation,
                                   !.bidScore = calculateScore(bid.Priority, got.reputation),
                                   !.bidCost = computeBidcost(bid.Priority, got.reputation)]]
        /\ UNCHANGED <<tokens, bidsTable, loopVarPerIteration, admin, hist, start,
                       adminCalls, faults>>

\* "if bidScore > maxScore": whether the bid replaces the running best
BeatsBest(bidScore, maxScore) == bidScore > maxScore

\* the rest of the iteration once RecordBid has returned recordErr
AfterRecord(c, recordErr) ==
    IF recordErr # ""
    THEN Finish(c, "", recordErr)
    ELSE IF c.balance < c.bidCost
    THEN IF ManagerLogger = "nil"
         THEN Finish(c, "", "panic")
         ELSE [c EXCEPT !.pc = "loop"]
    ELSE IF BeatsBest(c.bidScore, c.maxScore)
    THEN [c EXCEPT !.pc = "loop", !.maxScore = c.bidScore,
                   !.winningBid = AddressOfBid(c.idx),
                   !.winningBidCost = c.bidCost]
    ELSE [c EXCEPT !.pc = "loop"]

\* RecordBid's PutItem, which the store accepts or rejects, and the rest of
\* the iteration
AuctionRecord(p) ==
    LET c == calls[p]
        bidID == <<p, hist[p].puts + 1>>
        row == BidRow(c.bid, c.bidCost, c.bidScore, bidID)
    IN  /\ c.pc = "record"
        /\ \E putAccepted \in BOOLEAN :
             /\ ~putAccepted => faults < MaxFaults
             /\ faults' = IF putAccepted THEN faults ELSE faults + 1
             /\ bidsTable' = IF putAccepted THEN PutItem(bidsTable, row) ELSE bidsTable
             /\ hist' = [hist EXCEPT ![p].puts = @ + 1]
             /\ calls' = [calls EXCEPT ![p] = AfterRecord(c, RecordBidResult(putAccepted))]
        /\ UNCHANGED <<tokens, loopVarPerIteration, admin, start, adminCalls>>

(***************************************************************************)
(* SpendTokens.                                                            *)
(***************************************************************************)
\* from the entry of SpendTokens(bid) to the check of the balance read:
\* GetTokenBalance, computeBidcost, "if balance < bidCost"
SpendTokensRead(c, bid) ==
    LET got == GetTokenBalance(bid.TeamID)
        bidCost == computeBidcost(bid.Priority, got.reputation)
        c1 == [c EXCEPT !.spBid = bid, !.spBalance = got.balance,
                        !.spCost = bidCost]
    IN  IF got.err # ""
        THEN Finish(c, "", got.err)
        ELSE IF got.balance < bidCost
        THEN Finish(c, "", "InsufficientBalance")
        ELSE [c1 EXCEPT !.pc = "sp_update"]

\* a direct call of SpendTokens, with a bid of the set bids
StartSpendTokens(p, bids) ==
    /\ calls[p].pc = "idle"
    /\ \E bid \in bids :
         calls' = [calls EXCEPT ![p] =
                     SpendTokensRead([IdleCall EXCEPT !.op = "SpendTokens",
                                                      !.bids = <<bid>>], bid)]
    /\ UNCHANGED <<tokens, bidsTable, loopVarPerIteration, admin, hist, start,
                   adminCalls, faults>>

\* RunAuction after the loop: no winner, or SpendTokens(winningBid)
AuctionSettle(p) ==
    LET c == calls[p]
    IN  /\ c.pc = "loop"
        /\ c.idx = Len(c.bids)
        /\ calls' = [calls EXCEPT ![p] =
                       IF c.winningBid = Nil
                       THEN Finish(c, "", "NoWinner")
                       ELSE SpendTokensRead(c, Deref(c, c.winningBid))]
        /\ UNCHANGED <<tokens, bidsTable, loopVarPerIteration, admin, hist, start,
                       adminCalls, faults>>

\* a round that, refused the debit of its winner, tries the first bid of the
\* batch instead
WriteRefusedFallsBack(c) ==
    IF c.op = "RunAuction"
    THEN SpendTokensRead(c, c.bids[1])
    ELSE Finish(c, "", "InsufficientBalance")

\* the store refuses the conditional write: SpendTokens returns the error and
\* RunAuction, which called it, returns ("", err)
WriteRefused(c) == Finish(c, "", "InsufficientBalance")

\* the debit written without its ConditionExpression
DebitConditionDropped(item, amount) == item.exists

\* ConditionExpression "token_balance >= :amount"
DebitCondition(item, amount) ==
    item.exists /\ item.token_balance >= amount

\* the debit that leaves the usage counter as it is
DebitUpdateBalanceOnly(item, amount, priority) ==
    [item EXCEPT !.token_balance = @ - amount]

\* UpdateExpression of the debit: SET token_balance = token_balance - :amount,
\* priority_usage.#usage_key = if_not_exists(priority_usage.#usage_key, 0) + 1
DebitUpdate(item, amount, priority) ==
    [item EXCEPT !.token_balance = @ - amount,
                 !.priority_usage = [@ EXCEPT ![priority] = @ + 1]]

\* a response that holds the whole priority_usage map of the item
UpdatedNewUsageWholeMap(item, priority, key) == item.priority_usage[key]

\* ReturnValues UPDATED_NEW: of priority_usage the response holds the
\* updated element only; the Go map read at any other key gives 0
UpdatedNewUsage(item, priority, key) ==
    IF key = priority THEN item.priority_usage[priority] ELSE 0

\* the check made with ">=" in place of ">"
AbusiveAtThreshold(count) == count >= AbuseThreshold

\* "if priorityUsage[10] > 5"
Abusive(count) == count > AbuseThreshold

\* RunAuction returning the team of the first bid of the batch
SpendSucceedsFirstBid(c) ==
    IF c.op = "RunAuction"
    THEN Finish(c, c.bids[1].TeamID, "")
    ELSE Finish(c, "", "")

\* what SpendTokens, and RunAuction around it, return on success
SpendSucceeds(c) ==
    IF c.op = "RunAuction"
    THEN Finish(c, Deref(c, c.winningBid).TeamID, "")
    ELSE Finish(c, "", "")

\* the error of the penalty write dropped: the call returns as on success
PenaltyWriteFailedIgnored(c) == SpendSucceeds(c)

\* the store rejects the penalty write: SpendTokens returns the error, and so
\* does RunAuction around it
PenaltyWriteFailed(c) == Finish(c, "", "PenaltyFailed")

\* the conditional UpdateItem of the debit
SpendUpdate(p) ==
    LET c == calls[p]
        key == GetTokenPK(c.spBid.TeamID)
        item == tokens[key]
        new == DebitUpdate(item, c.spCost, c.spBid.Priority)
        h == [hist[p] EXCEPT !.wrote = TRUE, !.debited = c.spBid,
                             !.cost = c.spCost, !.balRead = c.spBalance,
                             !.balAtWrite = item.token_balance]
    IN  /\ c.pc = "sp_update"
        /\ IF ~DebitCondition(item, c.spCost)
           THEN /\ calls' = [calls EXCEPT ![p] = WriteRefused(c)]
                /\ hist' = [hist EXCEPT ![p] =
                              [h EXCEPT !.writeOk = FALSE,
                                        !.balAfterWrite = item.token_balance]]
                /\ UNCHANGED tokens
           ELSE IF ~item.has_usage
           THEN \* the document path priority_usage.#usage_key does not exist
                /\ calls' = [calls EXCEPT ![p] = Finish(c, "", "UpdateFailed")]
                /\ UNCHANGED <<tokens, hist>>
           ELSE /\ tokens' = [tokens EXCEPT ![key] = new]
                /\ hist' = [hist EXCEPT ![p] =
                              [h EXCEPT !.writeOk = TRUE,
                                        !.balAfterWrite = new.token_balance,
                                        !.debits = @ + 1,
                                        !.touched = @ \cup {key}]]
                /\ calls' = [calls EXCEPT ![p] =
                      IF Abusive(UpdatedNewUsage(new, c.spBid.Priority, AbusePriority))
                      THEN [c EXCEPT !.pc = "sp_penalty"]
                      ELSE SpendSucceeds(c)]
        /\ UNCHANGED <<bidsTable, loopVarPerIteration, admin, start, adminCalls, faults>>

\* UpdateExpression of the penalty: SET reputation_score = reputation_score - 10
PenaltyUpdate(item) ==
    [item EXCEPT !.reputation_score = @ - ReputationPenalty]

\* the UpdateItem of the reputation penalty, which the store accepts or rejects
SpendPenalty(p) ==
    LET c == calls[p]
        key == GetTokenPK(c.spBid.TeamID)
    IN  /\ c.pc = "sp_penalty"
        /\ \E accepted \in BOOLEAN :
             /\ ~accepted => faults < MaxFaults
             /\ faults' = IF accepted THEN faults ELSE faults + 1
             /\ tokens' = IF accepted
                          THEN [tokens EXCEPT ![key] = PenaltyUpdate(@)]
                          ELSE tokens
             /\ hist' = IF accepted
                        THEN [hist EXCEPT ![p].touched = @ \cup {key}]
                        ELSE hist
             /\ calls' = [calls EXCEPT ![p] =
                            IF accepted THEN SpendSucceeds(c)
                            ELSE PenaltyWriteFailed(c)]
        /\ UNCHANGED <<bidsTable, loopVarPerIteration, admin, start, adminCalls>>

(***************************************************************************)
(* InitializeTokens and RefillTokens: one request per team of the list.    *)
(***************************************************************************)
NonEmptySeqsUpTo(S, n) == SeqsUpTo(S, n) \ {<<>>}

StartInitializeTokens(maxLen) ==
    /\ admin.pc = "idle"
    /\ adminCalls < MaxAdminCalls
    /\ \E teams \in NonEmptySeqsUpTo(TeamIDs, maxLen) :
         admin' = [admin EXCEPT !.pc = "run", !.op = "InitializeTokens",
                                !.teams = teams]
    /\ adminCalls' = adminCalls + 1
    /\ UNCHANGED <<tokens, bidsTable, loopVarPerIteration, calls, hist, start, faults>>

StartRefillTokens(maxLen) ==
    /\ admin.pc = "idle"
    /\ adminCalls < MaxAdminCalls
    /\ \E teams \in NonEmptySeqsUpTo(RefillIDs, maxLen) :
         admin' = [admin EXCEPT !.pc = "run", !.op = "RefillTokens",
                                !.teams = teams]
    /\ adminCalls' = adminCalls + 1
    /\ UNCHANGED <<tokens, bidsTable, loopVarPerIteration, calls, hist, start, faults>>

\* the PutItem made without its ConditionExpression
InitializePutUnconditional(item) == NewTokenDBRow

\* PutItem with ConditionExpression attribute_not_exists(pk); a failed
\* condition is "team already exists": continue
InitializePut(item) == IF item.exists THEN item ELSE NewTokenDBRow

\* the key RefillTokens addresses
RefillKey(teamID) == teamID

\* UpdateItem SET token_balance = :initialBalance, reputation_score =
\* :initialReputation; an UpdateItem on a key without item creates the item,
\* with the attributes set and no others
RefillUpdate(item) ==
    IF item.exists
    THEN [item EXCEPT !.token_balance = InitialTokenCount,
                      !.reputation_score = InitialReputationScore]
    ELSE [NoItem EXCEPT !.exists = TRUE,
                        !.token_balance = InitialTokenCount,
                        !.reputation_score = InitialReputationScore]

\* the loop body for the next team of the list; after the last, return nil
AdminStep ==
    /\ admin.pc = "run"
    /\ admin.i < Len(admin.teams)
    /\ LET teamID == admin.teams[admin.i + 1]
       IN  tokens' = IF admin.op = "InitializeTokens"
                     THEN [tokens EXCEPT ![GetTokenPK(teamID)] = InitializePut(@)]
                     ELSE [tokens EXCEPT ![RefillKey(teamID)] = RefillUpdate(@)]
    /\ LET teamID == admin.teams[admin.i + 1]
           \* the request is made for team t, or writes the item of team t
           refilled == [t \in TeamIDs |->
                          IF /\ admin.op = "RefillTokens"
                             /\ (teamID = t \/ RefillKey(teamID) = GetTokenPK(t))
                          THEN tokens[GetTokenPK(t)].priority_usage[AbusePriority]
                          ELSE admin.refilled[t]]
       IN  admin' = IF admin.i + 1 = Len(admin.teams)
                    THEN [IdleAdmin EXCEPT !.refilled = refilled]
                    ELSE [admin EXCEPT !.i = @ + 1, !.refilled = refilled]
    /\ UNCHANGED <<bidsTable, loopVarPerIteration, calls, hist, start, adminCalls, faults>>

(***************************************************************************)
(* Spec: concurrent callers, with InitializeTokens and RefillTokens        *)
(* beside them.                                                            *)
(***************************************************************************)
Next ==
    \/ \E p \in Procs :
         \/ StartAuction(p, MaxConcurrentBids)
         \/ AuctionGet(p)
         \/ AuctionRecord(p)
         \/ AuctionSettle(p)
         \/ StartSpendTokens(p, Bids)
         \/ SpendUpdate(p)
         \/ SpendPenalty(p)
    \/ StartInitializeTokens(MaxTeams)
    \/ StartRefillTokens(MaxTeams)
    \/ AdminStep

Spec == Init /\ [][Next]_vars

(***************************************************************************)
(* SpecRound: one caller, with no concurrent activity.                     *)
(***************************************************************************)
Caller == "c1"

NextRound ==
    \/ StartAuction(Caller, MaxBids)
    \/ AuctionGet(Caller)
    \/ AuctionRecord(Caller)
    \/ AuctionSettle(Caller)
    \/ StartSpendTokens(Caller, Bids)
    \/ SpendUpdate(Caller)
    \/ SpendPenalty(Caller)

SpecRound == Init /\ [][NextRound]_vars

\* a step of a call that has been made: the call runs on until it returns,
\* each of its requests being answered by the store
CallStep ==
    \/ AuctionGet(Caller)
    \/ AuctionRecord(Caller)
    \/ AuctionSettle(Caller)
    \/ SpendUpdate(Caller)
    \/ SpendPenalty(Caller)

SpecRoundFair == SpecRound /\ WF_vars(CallStep)

(***************************************************************************)
(* SpecRace: one round, of up to MaxRaceBids bids, beside one direct call  *)
(* of SpendTokens by another caller.                                       *)
(***************************************************************************)
Rival == "c2"

NextRace ==
    \/ StartAuction(Caller, MaxRaceBids)
    \/ AuctionGet(Caller)
    \/ AuctionRecord(Caller)
    \/ AuctionSettle(Caller)
    \/ SpendUpdate(Caller)
    \/ SpendPenalty(Caller)
    \/ StartSpendTokens(Rival, Bids)
    \/ SpendUpdate(Rival)
    \/ SpendPenalty(Rival)

SpecRace == Init /\ [][NextRace]_vars

\* the same race, from the accounts of InitLedger: among them one that has
\* tokens left for debits at priority 10 that each cost a penalty
SpecPenaltyRace == InitLedger /\ [][NextRace]_vars

(***************************************************************************)
(* SpecPricing: the pricing and the scoring of a bid, for each priority in *)
(* range and each reputation from MaxReputationDrop below the initial one  *)
(* up to it (no operation raises a reputation above the initial one).      *)
(***************************************************************************)
Reputations ==
    (InitialReputationScore - MaxReputationDrop) .. InitialReputationScore

\* calculateScore and computeBidcost applied to a bid and a reputation, as the
\* loop of RunAuction applies them
ComputeQuote(p) ==
    /\ calls[p].pc = "idle"
    /\ \E priority \in Priorities, reputation \in Reputations :
         calls' = [calls EXCEPT ![p] =
                     [IdleCall EXCEPT !.pc = "priced", !.op = "Quote",
                                      !.bid = [NoBid EXCEPT !.Priority = priority],
                                      !.reputation = reputation,
                                      !.bidScore = calculateScore(priority, reputation),
                                      !.bidCost = computeBidcost(priority, reputation)]]
    /\ UNCHANGED <<tokens, bidsTable, loopVarPerIteration, admin, hist, start,
                   adminCalls, faults>>

NextPricing == ComputeQuote(Caller)

SpecPricing == Init /\ [][NextPricing]_vars

(***************************************************************************)
(* SpecLedger: a client that calls SpendTokens, InitializeTokens and       *)
(* RefillTokens one after another, each call made when the one before has  *)
(* returned.                                                               *)
(***************************************************************************)
\* the caller, back from a call, is ready for the next
Return(p) ==
    /\ calls[p].pc = "done"
    /\ hist[p].returns < MaxReturns
    /\ calls' = [calls EXCEPT ![p] = IdleCall]
    /\ hist' = [hist EXCEPT ![p] = [NoHist EXCEPT !.returns = hist[p].returns + 1,
                                                  !.puts = hist[p].puts]]
    /\ UNCHANGED <<tokens, bidsTable, loopVarPerIteration, admin, start,
                   adminCalls, faults>>

\* the bids of that client: those of one team, at the priorities in range
LedgerBids == {bid \in Bids : bid.TeamID = "A" /\ bid.Priority \in Priorities}

NoCallRunning == calls[Caller].pc \in {"idle", "done"}

\* the client calls SpendTokens when no InitializeTokens or RefillTokens runs
ClientSpendTokens ==
    /\ admin.pc = "idle"
    /\ StartSpendTokens(Caller, LedgerBids)

\* the client calls InitializeTokens when its SpendTokens call has returned
ClientInitializeTokens ==
    /\ NoCallRunning
    /\ StartInitializeTokens(MaxLedgerTeams)

\* the client calls RefillTokens when its SpendTokens call has returned
ClientRefillTokens ==
    /\ NoCallRunning
    /\ StartRefillTokens(MaxLedgerTeams)

NextLedger ==
    \/ ClientSpendTokens
    \/ SpendUpdate(Caller)
    \/ SpendPenalty(Caller)
    \/ Return(Caller)
    \/ ClientInitializeTokens
    \/ ClientRefillTokens
    \/ AdminStep

SpecLedger == InitLedger /\ [][NextLedger]_vars

(***************************************************************************)
(* Properties.                                                             *)
(***************************************************************************)
Accounts == {k \in TokenKeys : tokens[k].exists}

\* the rows of the bids table that caller p put
RowsBy(p) == {row \in bidsTable : row.Sk[2][1] = p}

\* C1: in every reachable state, under any interleaving of rounds, SpendTokens
\* calls, refills and initializations, every account's token balance is >= 0.
C1_BalanceNeverNegative ==
    \A k \in Accounts : tokens[k].token_balance >= 0

\* C1 witness: a debit has taken effect on an account and left a balance,
\* not negative, below the cost of a debit that another caller attempted on
\* it after reading the earlier balance.
C1_Witness ==
    \E p, q \in Procs :
        /\ p # q
        /\ hist[p].writeOk
        /\ hist[q].wrote
        /\ hist[p].debited.TeamID = hist[q].debited.TeamID
        /\ LET item == tokens[GetTokenPK(hist[p].debited.TeamID)]
           IN  /\ item.token_balance >= 0
               /\ item.token_balance < hist[q].cost
               /\ hist[q].balRead >= hist[q].cost

\* the two callers p and q both read the balance b of one team in SpendTokens,
\* a balance that covers either cost and not both; p's conditional write met
\* the balance b, and q's the balance p's write left
RacingDebits(p, q) ==
    /\ p # q
    /\ hist[p].wrote /\ hist[q].wrote
    /\ hist[p].debited.TeamID = hist[q].debited.TeamID
    /\ hist[p].balRead = hist[q].balRead
    /\ hist[p].cost <= hist[p].balRead
    /\ hist[q].cost <= hist[q].balRead
    /\ hist[p].cost + hist[q].cost > hist[p].balRead
    /\ hist[p].balAtWrite = hist[p].balRead
    /\ hist[q].balAtWrite = hist[p].balAfterWrite

\* C2: when two concurrent calls reach the debit of the same team, each having
\* read a balance that covers its own cost while the two costs together exceed
\* it, exactly one conditional write succeeds, the other call fails with
\* InsufficientBalance, and the balance is decremented by exactly one cost.
C2_ExactlyOneDebitWins ==
    \A p, q \in Procs :
        RacingDebits(p, q) =>
            /\ hist[p].writeOk
            /\ ~hist[q].writeOk
            /\ calls[q].pc = "done"
            /\ calls[q].err = "InsufficientBalance"
            /\ hist[q].debits = 0
            /\ hist[q].balAfterWrite = hist[p].balRead - hist[p].cost

\* C2 witness: two rounds have raced in that way.
C2_Witness ==
    \E p, q \in Procs :
        /\ RacingDebits(p, q)
        /\ calls[p].op = "RunAuction"
        /\ calls[q].op = "RunAuction"

\* the bid with which caller p enters SpendTokens in this step, NoBid if it
\* does not
EnteredBid(p) ==
    LET c == calls[p]
    IN  IF c.pc = "idle" /\ calls'[p].op = "SpendTokens"
        THEN calls'[p].bids[1]
        ELSE IF /\ c.pc = "loop" /\ c.idx = Len(c.bids) /\ c.winningBid # Nil
                /\ calls'[p] # c
        THEN Deref(c, c.winningBid)
        ELSE NoBid

\* the debit of caller p fails in this step and changes no account
DebitRefused(p) ==
    /\ tokens' = tokens
    /\ calls'[p].pc = "done"
    /\ calls'[p].err = "InsufficientBalance"
    /\ hist'[p].debits = hist[p].debits

\* C3: a debit attempted with cost > balance fails with InsufficientBalance and
\* leaves the balance, the reputation and every priority-usage counter
\* unchanged, whether the initial read or the conditional write detects it.
C3_ShortfallChangesNothing ==
    [][\A p \in Procs :
         /\ LET bid == EnteredBid(p)
                item == tokens[GetTokenPK(bid.TeamID)]
            IN  ( /\ bid # NoBid
                  /\ item.exists
                  /\ computeBidcost(bid.Priority, item.reputation_score)
                        > item.token_balance )
                => DebitRefused(p)
         /\ LET c == calls[p]
            IN  ( /\ c.pc = "sp_update"
                  /\ calls'[p] # c
                  /\ c.spCost > tokens[GetTokenPK(c.spBid.TeamID)].token_balance )
                => DebitRefused(p)
      ]_vars

\* C3 witness: a shortfall that the read did not show and the conditional
\* write detected.
C3_Witness ==
    \E p \in Procs :
        /\ hist[p].wrote /\ ~hist[p].writeOk
        /\ hist[p].balRead >= hist[p].cost
        /\ hist[p].balAtWrite < hist[p].cost
        /\ calls[p].err = "InsufficientBalance"
        /\ hist[p].debits = 0

(***************************************************************************)
(* Properties of one round that runs alone (SpecRound): the accounts the   *)
(* round reads are those of the initial state, start.                      *)
(***************************************************************************)
Round == calls[Caller]

RoundHist == hist[Caller]

RoundDone == Round.op = "RunAuction" /\ Round.pc = "done"

RoundWon == RoundDone /\ Round.err = ""

BidIndexes == 1 .. Len(Round.bids)

StartAccount(bid) == start[GetTokenPK(bid.TeamID)]

StartCost(bid) == computeBidcost(bid.Priority, StartAccount(bid).reputation_score)

StartScore(bid) == calculateScore(bid.Priority, StartAccount(bid).reputation_score)

\* the bid's team has an account whose balance covers the bid's cost
Eligible(bid) ==
    StartAccount(bid).exists /\ StartAccount(bid).token_balance >= StartCost(bid)

EligibleIndexes == {i \in BidIndexes : Eligible(Round.bids[i])}

\* the eligible bids of greatest score
BestIndexes ==
    {i \in EligibleIndexes :
        \A j \in EligibleIndexes : StartScore(Round.bids[i]) >= StartScore(Round.bids[j])}

Min(S) == CHOOSE x \in S : \A y \in S : x <= y

\* every bid of the batch names a team that has an account and declares a
\* priority in 1..10, and the store has answered every request
Undisturbed ==
    /\ \A i \in BidIndexes : StartAccount(Round.bids[i]).exists
    /\ \A i \in BidIndexes : Round.bids[i].Priority \in Priorities
    /\ faults = 0

\* no account other than that of teamID differs from the initial state
OnlyChanged(teamID) ==
    \A k \in TokenKeys : k # GetTokenPK(teamID) => tokens[k] = start[k]

\* C4: if at least one bid of the batch is eligible, the round returns the team
\* of the eligible bid with the greatest score, and the account debited is that
\* team's.
C4_BestEligibleBidWins ==
    (RoundDone /\ Undisturbed /\ EligibleIndexes # {}) =>
        /\ Round.err = ""
        /\ \E i \in BestIndexes : Round.team = Round.bids[i].TeamID
        /\ RoundHist.debits = 1
        /\ RoundHist.debited.TeamID = Round.team
        /\ OnlyChanged(Round.team)

\* C5: a round whose batch is one bid, of an existing team whose balance covers
\* the bid's cost, returns that bid's team and debits it, for every priority
\* and every reputation the account can hold.
C5_SingleAffordableBidWins ==
    (RoundDone /\ Undisturbed /\ Len(Round.bids) = 1 /\ Eligible(Round.bids[1])) =>
        /\ Round.err = ""
        /\ Round.team = Round.bids[1].TeamID
        /\ RoundHist.debits = 1
        /\ RoundHist.debited = Round.bids[1]

\* C6: when several eligible bids share the greatest score, the round returns
\* and debits the team of the one that comes first in the batch.
C6_FirstOfEqualScoresWins ==
    (RoundDone /\ Undisturbed /\ Cardinality(BestIndexes) >= 2) =>
        /\ Round.err = ""
        /\ Round.team = Round.bids[Min(BestIndexes)].TeamID
        /\ RoundHist.debits = 1
        /\ RoundHist.debited.TeamID = Round.team

\* C7 as stated: a round performs at most one successful debit, and the
\* account of every team other than the winner it returns is unchanged by it.
C7_OnlyReturnedWinnerChanged ==
    RoundDone =>
        /\ RoundHist.debits <= 1
        /\ \A k \in TokenKeys :
             (Round.err # "" \/ k # GetTokenPK(Round.team)) =>
                 (tokens[k] = start[k] /\ k \notin RoundHist.touched)

\* C7 as amended: a round performs at most one successful debit; the account
\* of every team other than the one it debited is unchanged by it; the team
\* debited is charged one cost and one usage count, also when it appears
\* several times in the batch; and a round that returns a winner returns the
\* team it debited.
C7_OnlyDebitedTeamChanged ==
    Round.op = "RunAuction" =>
        /\ RoundHist.debits <= 1
        /\ RoundHist.debits = 0 => (tokens = start /\ RoundHist.touched = {})
        /\ RoundHist.debits = 1 =>
             LET key == GetTokenPK(RoundHist.debited.TeamID)
             IN  /\ OnlyChanged(RoundHist.debited.TeamID)
                 /\ RoundHist.touched = {key}
                 /\ tokens[key].token_balance = start[key].token_balance - RoundHist.cost
                 /\ tokens[key].priority_usage =
                        [start[key].priority_usage EXCEPT ![RoundHist.debited.Priority] = @ + 1]
        /\ RoundWon => (RoundHist.debits = 1 /\ Round.team = RoundHist.debited.TeamID)

\* C7 witness: a round whose batch names the winning team twice and another
\* team with an account has returned the winner, debited once.
C7_Witness ==
    /\ RoundWon
    /\ RoundHist.debits = 1
    /\ \E i, j, k \in BidIndexes :
         /\ i # j
         /\ Round.bids[i].TeamID = Round.team
         /\ Round.bids[j].TeamID = Round.team
         /\ Round.bids[k].TeamID # Round.team
         /\ StartAccount(Round.bids[k]).exists

\* C8: a bid whose team's balance is below its cost is skipped without an
\* error and the round goes on; a round in which every bid is unaffordable, or
\* the batch is empty, ends with NoWinner, has put one Bid Record per bid and
\* has changed no account.
C8_UnaffordableBidsSkipped ==
    (RoundDone /\ Undisturbed) =>
        /\ Round.err # "panic"
        /\ EligibleIndexes = {} =>
             /\ Round.err = "NoWinner"
             /\ Cardinality(RowsBy(Caller)) = Len(Round.bids)
             /\ tokens = start

\* C9: each bid that has been priced has exactly one Bid Record, with the bid's
\* team, recipient and priority and the cost and score computed for it, put
\* before any debit of the round; a round that ends in Won or NoWinner has put
\* as many records as the batch has bids.
C9_OneRecordPerPricedBid ==
    Round.op = "RunAuction" =>
        /\ \A n \in 1 .. RoundHist.puts :
             \E row \in bidsTable :
                 /\ row.Sk = <<Round.bids[n].TeamID, <<Caller, n>>>>
                 /\ row.Pk = GetBidPK(Round.bids[n].TeamID)
                 /\ row.Target = Round.bids[n].UserID
                 /\ row.Priority = Round.bids[n].Priority
                 /\ row.Cost = StartCost(Round.bids[n])
                 /\ row.Score = StartScore(Round.bids[n])
        /\ Cardinality(RowsBy(Caller)) = RoundHist.puts
        /\ (RoundDone /\ Round.err \in {"", "NoWinner"}) =>
               Cardinality(RowsBy(Caller)) = Len(Round.bids)

\* C10: if the store rejects the audit write of a bid, the round aborts with
\* RecordingFailed: it processes no later bid, returns no winner and debits no
\* account.
C10_RejectedRecordAbortsRound ==
    (Round.op = "RunAuction" /\ Cardinality(RowsBy(Caller)) < RoundHist.puts) =>
        /\ Round.pc = "done"
        /\ Round.err = "RecordingFailed"
        /\ Round.team = ""
        /\ RoundHist.debits = 0
        /\ tokens = start

\* C11: a bid whose priority lies outside 1..10 is rejected with
\* InvalidPriority before any store access: the round puts no Bid Record for
\* it, never selects it as the winner and debits no account on its behalf; a
\* round whose first bid is such a bid ends with InvalidPriority.
C11_InvalidPriorityRejected ==
    Round.op = "RunAuction" =>
        /\ \A row \in bidsTable : row.Priority \in Priorities
        /\ RoundHist.wrote => RoundHist.debited.Priority \in Priorities
        /\ ( /\ RoundDone
              /\ Len(Round.bids) >= 1
              /\ Round.bids[1].Priority \notin Priorities
              /\ StartAccount(Round.bids[1]).exists )
               => Round.err = "InvalidPriority"

\* the bids of the batch whose team has no account
MissingIndexes == {i \in BidIndexes : ~StartAccount(Round.bids[i]).exists}

\* C12: if a bid of the batch names a team with no account, the round fails
\* with AccountNotFound at the first such bid: no account is debited, no later
\* bid is processed, and the Bid Records of the earlier bids remain.
C12_UnknownTeamFailsRound ==
    ( /\ RoundDone
      /\ faults = 0
      /\ \A i \in BidIndexes : Round.bids[i].Priority \in Priorities
      /\ MissingIndexes # {} ) =>
        /\ Round.err = "AccountNotFound"
        /\ Round.team = ""
        /\ RoundHist.debits = 0
        /\ tokens = start
        /\ RoundHist.puts = Min(MissingIndexes) - 1
        /\ Cardinality(RowsBy(Caller)) = Min(MissingIndexes) - 1

\* C13: if the debit of the round's selected winner fails with
\* InsufficientBalance because the balance changed between the round's read
\* and the debit, that failure is the round's result: the round returns the
\* error and no winner, tries no other bid and debits no account.
C13_LostRaceIsRoundResult ==
    ( /\ Round.op = "RunAuction"
      /\ \/ Round.err = "InsufficientBalance"
         \/ (RoundHist.wrote /\ ~RoundHist.writeOk) ) =>
        /\ Round.pc = "done"
        /\ Round.err = "InsufficientBalance"
        /\ Round.team = ""
        /\ RoundHist.debits = 0
        /\ RoundHist.touched = {}
        /\ \A k \in TokenKeys : tokens[k] # start[k] => k \in hist[Rival].touched

\* C13 witness: the round read a balance that covered the winner's cost, the
\* rival's debit of the same team came first, the round's conditional write was
\* refused, and the batch holds a bid of another team that could still pay.
C13_Witness ==
    /\ RoundDone
    /\ RoundHist.wrote /\ ~RoundHist.writeOk
    /\ RoundHist.balRead >= RoundHist.cost
    /\ hist[Rival].writeOk
    /\ hist[Rival].debited.TeamID = RoundHist.debited.TeamID
    /\ \E i \in BidIndexes :
         LET bid == Round.bids[i]
             item == tokens[GetTokenPK(bid.TeamID)]
         IN  /\ bid.TeamID # RoundHist.debited.TeamID
             /\ item.exists
             /\ item.token_balance >= computeBidcost(bid.Priority, item.reputation_score)
             /\ calculateScore(bid.Priority, item.reputation_score) > 0

(***************************************************************************)
(* Properties of the ledger operations called one after another            *)
(* (SpecLedger).                                                           *)
(***************************************************************************)
\* in this step RefillTokens makes its request for team t
RefillStepOf(t) ==
    /\ admin.pc = "run"
    /\ admin.op = "RefillTokens"
    /\ admin' # admin
    /\ admin.teams[admin.i + 1] = t

\* in this step InitializeTokens makes its request for team t
InitializeStepOf(t) ==
    /\ admin.pc = "run"
    /\ admin.op = "InitializeTokens"
    /\ admin' # admin
    /\ admin.teams[admin.i + 1] = t

\* C14: after the refill of a team that has an account, whatever the state of
\* the account, the account that GetTokenBalance reads and SpendTokens charges
\* has balance 1000 and reputation 100 and the priority-usage counters it had;
\* a refill of an account in that state changes nothing.
C14_RefillResetsAccount ==
    [][\A t \in TeamIDs :
         (RefillStepOf(t) /\ tokens[GetTokenPK(t)].exists) =>
             LET old == tokens[GetTokenPK(t)]
                 new == tokens'[GetTokenPK(t)]
             IN  /\ new.exists
                 /\ new.token_balance = 1000
                 /\ new.reputation_score = 100
                 /\ new.priority_usage = old.priority_usage
                 /\ (old.token_balance = 1000 /\ old.reputation_score = 100)
                        => tokens' = tokens
      ]_vars

\* C15: InitializeTokens creates the account of a team, with balance 1000,
\* reputation 100 and every priority-usage count 0, if and only if the team has
\* none; on an existing account, whatever debits and penalties it has seen, it
\* changes nothing and reports no error; and it goes on with the next team of
\* the list.
C15_InitializeCreatesOnce ==
    [][\A t \in TeamIDs :
         InitializeStepOf(t) =>
             LET key == GetTokenPK(t)
             IN  /\ \A k \in TokenKeys \ {key} : tokens'[k] = tokens[k]
                 /\ IF tokens[key].exists
                    THEN tokens'[key] = tokens[key]
                    ELSE tokens'[key] = TokenDBRow(1000, 100, [q \in UsageKeys |-> 0])
                 /\ IF admin.i + 1 < Len(admin.teams)
                    THEN /\ admin'.pc = "run"
                         /\ admin'.op = "InitializeTokens"
                         /\ admin'.teams = admin.teams
                         /\ admin'.i = admin.i + 1
                    ELSE admin'.pc = "idle"
      ]_vars

\* C15 witness: InitializeTokens, given a team whose account this client has
\* debited and then a team with no account, has passed the first team, whose
\* account is as the debit left it, and is about to create the second.
C15_Witness ==
    /\ admin.pc = "run"
    /\ admin.op = "InitializeTokens"
    /\ Len(admin.teams) = 2
    /\ admin.i = 1
    /\ LET first == tokens[GetTokenPK(admin.teams[1])]
       IN  /\ first.exists
           /\ first # start[GetTokenPK(admin.teams[1])]
           /\ first.token_balance < 1000
    /\ ~tokens[GetTokenPK(admin.teams[2])].exists

\* the number of debits at priority 10 beyond the fifth, of n
Over(n) == IF n > 5 THEN n - 5 ELSE 0

\* the account of team t has been debited at priority 10 only
OnlyPriority10Debits(t) ==
    \A q \in UsageKeys \ {10} :
        tokens[GetTokenPK(t)].priority_usage[q] = start[GetTokenPK(t)].priority_usage[q]

\* C16: for a team with no refill and no concurrent activity, the first five
\* successful debits at priority 10 leave the reputation unchanged, and the
\* sixth and each later one lowers it by exactly 10, below 0 as well: after
\* the debits the reputation is the initial one less 10 for each debit that
\* left the priority-10 count above 5.
C16_PenaltyFromSixthDebit ==
    \A t \in TeamIDs :
        LET item == tokens[GetTokenPK(t)]
            base == start[GetTokenPK(t)]
        IN  ( /\ base.exists
              /\ admin.refilled[t] = NotRefilled
              /\ faults = 0
              /\ NoCallRunning
              /\ OnlyPriority10Debits(t) ) =>
                item.reputation_score =
                    base.reputation_score
                      - 10 * (Over(item.priority_usage[10]) - Over(base.priority_usage[10]))

\* C16 witness: a new account after seven debits at priority 10, its
\* reputation at 80; and an account of reputation 0 after two more, at -20.
C16_Witness ==
    LET item == tokens[GetTokenPK("A")]
        base == start[GetTokenPK("A")]
    IN  /\ admin.refilled["A"] = NotRefilled
        /\ faults = 0
        /\ NoCallRunning
        /\ OnlyPriority10Debits("A")
        /\ \/ /\ base = NewTokenDBRow
              /\ item.priority_usage[10] = 7
              /\ item.reputation_score = 80
           \/ /\ base.reputation_score = 0
              /\ item.priority_usage[10] = base.priority_usage[10] + 2
              /\ item.reputation_score = -20

\* C17: a team's reputation is penalized only when it has made more than 5
\* priority-10 requests since its last refill: after a refill, while the team
\* has made at most five debits at priority 10 since, its reputation is 100,
\* however many it made before the refill.
C17_PenaltyCountsFromRefill ==
    \A t \in TeamIDs :
        LET item == tokens[GetTokenPK(t)]
        IN  ( /\ item.exists
              /\ admin.pc = "idle"
              /\ admin.refilled[t] # NotRefilled
              /\ faults = 0
              /\ item.priority_usage[10] - admin.refilled[t] <= 5 ) =>
                item.reputation_score = 100

(***************************************************************************)
(* Properties of the pricing and the scoring (SpecPricing).                *)
(***************************************************************************)
Quote == calls[Caller]

Quoted == Quote.op = "Quote" /\ Quote.pc = "priced"

\* the base cost of a priority, as the claim gives it
PriceBase(priority) ==
    IF priority <= 3 THEN 1
    ELSE IF priority <= 6 THEN 5
    ELSE IF priority <= 9 THEN 7
    ELSE 10

\* floor(base * (1.0 + 1.5 * (1 - reputation/100))), which is
\* floor(base * (500 - 3 * reputation) / 200), for a reputation up to 100
FloorPrice(priority, reputation) ==
    (PriceBase(priority) * (500 - 3 * reputation)) \div 200

\* the price does not rise with the reputation, over 0 .. 100
PriceNonIncreasing ==
    (Quoted /\ Quote.reputation \in 0 .. 100) =>
        \A r2 \in Quote.reputation .. 100 :
            computeBidcost(Quote.bid.Priority, r2) <= Quote.bidCost

\* the price at reputation 100 is the base, at reputation 0 floor(2.5 * base)
PriceEndpoints ==
    /\ (Quoted /\ Quote.reputation = 100) =>
           Quote.bidCost = PriceBase(Quote.bid.Priority)
    /\ (Quoted /\ Quote.reputation = 0) =>
           Quote.bidCost = (5 * PriceBase(Quote.bid.Priority)) \div 2

\* C18: for every priority in 1..10 and reputation in 0..100 the price is
\* floor(base * (1.0 + 1.5 * (1 - reputation/100))), with base 1, 5, 7, 10 by
\* tier; it does not rise with the reputation; at reputation 100 it is the
\* base and at reputation 0 floor(2.5 * base).
C18_PriceIsFloorAndNonIncreasing ==
    /\ (Quoted /\ Quote.reputation \in 0 .. 100) =>
           Quote.bidCost = FloorPrice(Quote.bid.Priority, Quote.reputation)
    /\ PriceNonIncreasing
    /\ PriceEndpoints

\* C19: the score 0.7 * ((priority - 1) / 9 * 100) + 0.3 * reputation (here
\* multiplied by 90) is strictly increasing in the priority for a fixed
\* reputation and non-decreasing in the reputation for a fixed priority, over
\* the priorities 1..10 and every reputation an account can hold.
C19_ScoreMonotone ==
    Quoted =>
        /\ Quote.bidScore = 700 * (Quote.bid.Priority - 1) + 27 * Quote.reputation
        /\ \A p2 \in Priorities :
             p2 > Quote.bid.Priority =>
                 calculateScore(p2, Quote.reputation) > Quote.bidScore
        /\ \A r2 \in Reputations :
             r2 >= Quote.reputation =>
                 calculateScore(Quote.bid.Priority, r2) >= Quote.bidScore

\* C19 witness: a bid below the highest priority has been scored at a
\* reputation below 0.
C19_Witness ==
    /\ Quoted
    /\ Quote.bid.Priority < 10
    /\ Quote.reputation < 0
    /\ Quote.bidScore < 0

\* C20: Bid Records are append-only: in every step of any interleaving of
\* rounds, successful or failed, debits, refills and initializations, every
\* record of the bids table stays in it as it is, and a put that the store
\* accepts adds a record without replacing another.
C20_BidRecordsAppendOnly ==
    [][/\ bidsTable \subseteq bidsTable'
       /\ \A p \in Procs :
            (hist'[p].puts = hist[p].puts + 1 /\ faults' = faults) =>
                Cardinality(bidsTable') = Cardinality(bidsTable) + 1
      ]_vars

\* C20 witness: two rounds have each put the record of a bid of the same
\* team; one round failed and the other debited the team; a refill or an
\* initialization has run; both records are in the table.
C20_Witness ==
    /\ \E r1, r2 \in bidsTable : r1 # r2 /\ r1.Pk = r2.Pk
    /\ \E p, q \in Procs :
         /\ calls[p].op = "RunAuction" /\ calls[p].pc = "done" /\ calls[p].err # ""
         /\ calls[q].op = "RunAuction" /\ calls[q].pc = "done" /\ hist[q].debits = 1
    /\ adminCalls = 1
    /\ admin.pc = "idle"

\* C21: the amount debited from the winning team equals the cost that the
\* round computed and put in the Bid Record of the winning bid, also when a
\* concurrent penalty or a refill changes the team's reputation between the
\* round's read of the account and its debit.
C21_DebitEqualsRecordedCost ==
    ( /\ Round.op = "RunAuction"
      /\ RoundHist.debits = 1
      /\ faults = 0 ) =>
        \E row \in RowsBy(Caller) :
            /\ row.Pk = GetBidPK(RoundHist.debited.TeamID)
            /\ row.Target = RoundHist.debited.UserID
            /\ row.Priority = RoundHist.debited.Priority
            /\ row.Cost = RoundHist.balAtWrite - RoundHist.balAfterWrite

\* of the requests the store rejected, one was the round's penalty write (the
\* others were puts of Bid Records, each of which left a record missing)
PenaltyRejected ==
    faults > RoundHist.puts - Cardinality(RowsBy(Caller))

\* the account of the team debited is the initial one with the cost taken
\* off and one usage count added, its reputation as it was
DebitStaysPenaltyMissing ==
    LET key == GetTokenPK(RoundHist.debited.TeamID)
    IN  /\ RoundHist.debits = 1
        /\ OnlyChanged(RoundHist.debited.TeamID)
        /\ tokens[key] =
              [start[key] EXCEPT
                 !.token_balance = @ - RoundHist.cost,
                 !.priority_usage = [@ EXCEPT ![RoundHist.debited.Priority] = @ + 1]]

\* C22: if the penalty write fails after the winner's debit has succeeded,
\* the round returns an error while the debit and the usage increment stay
\* and the penalty stays unapplied; and a failed round that has changed any
\* account is such a round.
C22_PenaltyFailureKeepsDebit ==
    /\ (RoundDone /\ PenaltyRejected) =>
           /\ Round.err = "PenaltyFailed"
           /\ Round.team = ""
           /\ DebitStaysPenaltyMissing
    /\ (RoundDone /\ Round.err # "" /\ tokens # start) =>
           /\ PenaltyRejected
           /\ Round.err = "PenaltyFailed"
           /\ DebitStaysPenaltyMissing

\* C22 witness: a round has debited its winner at priority 10, the penalty
\* write was rejected, and the round is over.
C22_Witness ==
    /\ RoundDone
    /\ PenaltyRejected
    /\ RoundHist.debited.Priority = 10
    /\ tokens # start

(***************************************************************************)
(* Properties of the ledger under concurrent callers (Spec).               *)
(***************************************************************************)
\* the callers whose debit of team t at priority q has succeeded
DebitorsOf(t, q) ==
    {p \in Procs : /\ hist[p].debits = 1
                   /\ hist[p].debited.TeamID = t
                   /\ hist[p].debited.Priority = q}

\* in this step the debit of caller p succeeds
DebitStepOf(p) == hist'[p].debits = hist[p].debits + 1

\* C23: the balance decrement and the increment of priorityUsage[priority]
\* happen in one step; in every reachable state, under any interleaving, each
\* team's priorityUsage[p] is the number of successful debits made for the
\* team at priority p since the account was created; and no step, of a refill
\* either, lowers a counter.
C23_UsageCountsDebits ==
    /\ [](\A t \in TeamIDs, q \in UsageKeys :
            tokens[GetTokenPK(t)].priority_usage[q]
                = start[GetTokenPK(t)].priority_usage[q] + Cardinality(DebitorsOf(t, q)))
    /\ [][/\ \A p \in Procs :
              DebitStepOf(p) =>
                  LET key == GetTokenPK(hist'[p].debited.TeamID)
                      q == hist'[p].debited.Priority
                  IN  /\ tokens'[key].token_balance
                             = tokens[key].token_balance - hist'[p].cost
                      /\ tokens'[key].priority_usage[q]
                             = tokens[key].priority_usage[q] + 1
          /\ \A k \in TokenKeys, q \in UsageKeys :
              /\ tokens'[k].priority_usage[q] >= tokens[k].priority_usage[q]
              /\ tokens'[k].priority_usage[q] # tokens[k].priority_usage[q] =>
                     \E p \in Procs :
                         /\ DebitStepOf(p)
                         /\ k = GetTokenPK(hist'[p].debited.TeamID)
                         /\ q = hist'[p].debited.Priority
         ]_vars

\* C23 witness: both callers have debited one team at one priority, and a
\* refill has reset the team's account: the counter is two above its start.
C23_Witness ==
    \E t \in TeamIDs, q \in UsageKeys :
        /\ Cardinality(DebitorsOf(t, q)) = 2
        /\ admin.refilled[t] # NotRefilled
        /\ admin.pc = "idle"
        /\ tokens[GetTokenPK(t)].token_balance > start[GetTokenPK(t)].token_balance
        /\ tokens[GetTokenPK(t)].priority_usage[q]
               = start[GetTokenPK(t)].priority_usage[q] + 2

\* the results a round can end with: a winner, NoWinner, or an error passed on
RoundResults ==
    {"", "NoWinner", "AccountNotFound", "RecordingFailed", "InsufficientBalance",
     "PenaltyFailed"}

\* a round that is over has one of these results; it returns a team exactly
\* when it returns no error, and then after one successful debit
RoundEndsInResult ==
    RoundDone =>
        /\ Round.err \in RoundResults
        /\ Round.err = "" <=> Round.team # ""
        /\ Round.err = "" => RoundHist.debits = 1

\* a round takes its bids once and in input order, and debits at most once
RoundTakesBidsOnce ==
    /\ [](Round.op = "RunAuction" =>
             (RoundHist.puts <= Len(Round.bids) /\ RoundHist.debits <= 1))
    /\ [][(Round.op = "RunAuction" /\ Round.pc = "loop" /\ calls'[Caller].pc = "record")
             => (/\ calls'[Caller].idx = Round.idx + 1
                 /\ calls'[Caller].bid = Round.bids[Round.idx + 1])]_vars

\* a round that has started is over at some time
RoundIsOver == (Round.op = "RunAuction") ~> RoundDone

\* C24: every round terminates: it processes its bids once, in input order,
\* with no retry, and ends in exactly one of Won (a team is returned after one
\* successful debit), NoWinner, or an error passed on (AccountNotFound,
\* RecordingFailed, InsufficientBalance, the failure of the penalty write);
\* the store answering every request, no round stays unfinished forever.
C24_RoundTerminates ==
    /\ []RoundEndsInResult
    /\ RoundTakesBidsOnce
    /\ RoundIsOver

\* the cost of caller p's successful debit of team t, 0 if it has made none
DebitedCost(p, t) ==
    IF hist[p].debits = 1 /\ hist[p].debited.TeamID = t THEN hist[p].cost ELSE 0

RECURSIVE SumDebitedCosts(_, _)
SumDebitedCosts(callers, t) ==
    IF callers = {} THEN 0
    ELSE LET p == CHOOSE x \in callers : TRUE
         IN  DebitedCost(p, t) + SumDebitedCosts(callers \ {p}, t)

\* in this step RefillTokens makes a request
RefillStep == admin.pc = "run" /\ admin.op = "RefillTokens" /\ admin' # admin

\* C25: in every reachable state, under any interleaving, each team's balance
\* is 1000 less the costs of the team's successful debits since its creation
\* or last refill: a refill of a team sets its balance to 1000, a successful
\* debit takes off its cost, which is never negative, an account is created
\* with 1000, and nothing else changes a balance.
C25_LedgerConservation ==
    /\ [](\A t \in TeamIDs :
            (start[GetTokenPK(t)].exists /\ admin.refilled[t] = NotRefilled) =>
                tokens[GetTokenPK(t)].token_balance
                    = start[GetTokenPK(t)].token_balance - SumDebitedCosts(Procs, t))
    /\ [][/\ \A t \in TeamIDs :
              (RefillStepOf(t) /\ tokens[GetTokenPK(t)].exists) =>
                  tokens'[GetTokenPK(t)].token_balance = 1000
          /\ \A p \in Procs :
              DebitStepOf(p) =>
                  LET key == GetTokenPK(hist'[p].debited.TeamID)
                  IN  /\ hist'[p].cost >= 0
                      /\ tokens'[key].token_balance
                             = tokens[key].token_balance - hist'[p].cost
          /\ \A k \in TokenKeys :
              /\ (tokens[k].exists /\ tokens'[k].token_balance # tokens[k].token_balance) =>
                     \/ \E p \in Procs :
                            DebitStepOf(p) /\ k = GetTokenPK(hist'[p].debited.TeamID)
                     \/ RefillStep /\ tokens'[k].token_balance = 1000
              /\ (~tokens[k].exists /\ tokens'[k].exists) =>
                     tokens'[k].token_balance = 1000
         ]_vars

\* C26: a successful debit at a priority other than 10 never changes the
\* team's reputation, whatever its priority-10 count is; only the penalty of
\* a successful debit at priority 10 that left the count above 5, or a
\* refill, changes a reputation; no reputation exceeds 100.
C26_OnlyPriority10Penalized ==
    /\ [](\A k \in Accounts : tokens[k].reputation_score <= 100)
    /\ [][/\ \A p \in Procs :
              (DebitStepOf(p) /\ hist'[p].debited.Priority # 10) =>
                  LET key == GetTokenPK(hist'[p].debited.TeamID)
                  IN  /\ calls'[p].pc = "done"
                      /\ calls'[p].err = ""
                      /\ tokens'[key].reputation_score = tokens[key].reputation_score
          /\ \A k \in TokenKeys :
              (tokens[k].exists /\ tokens'[k].reputation_score # tokens[k].reputation_score) =>
                  \/ \E p \in Procs :
                         /\ calls[p].pc = "sp_penalty"
                         /\ calls'[p] # calls[p]
                         /\ calls[p].spBid.Priority = 10
                         /\ k = GetTokenPK(calls[p].spBid.TeamID)
                         /\ tokens[k].priority_usage[10] > 5
                         /\ tokens'[k].reputation_score = tokens[k].reputation_score - 10
                  \/ RefillStep /\ tokens'[k].reputation_score = 100
         ]_vars

\* C26 witness: a debit at priority 1 of a team whose priority-10 count is
\* above 5 has succeeded and the call has returned, the reputation as it was.
C26_Witness ==
    \E p \in Procs :
        LET key == GetTokenPK(hist[p].debited.TeamID)
        IN  /\ hist[p].debits = 1
            /\ hist[p].debited.Priority = 1
            /\ calls[p].pc = "done"
            /\ calls[p].err = ""
            /\ tokens[key].priority_usage[10] > 5
            /\ tokens[key].reputation_score = start[key].reputation_score
            /\ tokens[key].token_balance < start[key].token_balance

====
